---- MODULE Spec2Model ----
(***************************************************************************)
(* Music Data Project: the listener dropdown's change handler, the         *)
(* aggregation processUserData (common.mjs) and the table update           *)
(* updateTable (script.mjs).                                               *)
(*                                                                         *)
(* A timestamp is the listener's local time in minutes since a Sunday      *)
(* 00:00; getDay, getHours and toDateString are computed from it.  A       *)
(* JavaScript object used as a dictionary is the sequence of its           *)
(* [key, value] properties in creation order; ObjectKeys gives the order   *)
(* in which Object.keys enumerates them.                                   *)
(***************************************************************************)
EXTENDS Integers, Sequences, FiniteSets, TLC

VARIABLES
    pc,               \* "idle" | "begin" | "scan" | "emit": position of processUserData
    selections,       \* number of change events handled since page load
    userID,           \* the argument of the running processUserData call; "" when none runs
    events,           \* const events = getListenEvents(userID): Undefined or Defined(list)
    i,                \* number of events the for-of loop has processed
    songCount, songTime, artistCount, artistTime, genreCount,
    fridayNightSongs, fridayNightTime, songDays,
    maxStreak, currentStreak, streakSongs, prevSong,
    totalDays,
    results,          \* the filtered results array
    getSongCalls,     \* getSong calls made by the current / latest invocation
    updateTableCalls, \* arguments of its updateTable calls, in order
    thrown,           \* it ended by an exception that nothing caught
    musicTable,       \* an element with id musicTable is on the page
    musicTableBody,   \* the rows of tbody#musicTableBody
    noUserMessage,    \* number of span#noUserMessage elements on the page
    lastCall,         \* the latest finished invocation: its events and its outcome
    genreList,        \* the unit test of getGenres: the list it passes
    genreInsight,     \* the unit test of getGenres: what the call returned
    changeValue       \* event.target.value of the latest change event

locals == <<userID, events, i, songCount, songTime, artistCount, artistTime, genreCount,
            fridayNightSongs, fridayNightTime, songDays,
            maxStreak, currentStreak, streakSongs, prevSong, totalDays, results>>
dom == <<musicTable, musicTableBody, noUserMessage>>
observers == <<lastCall, genreList, genreInsight, changeValue>>
vars == <<pc, selections, locals, getSongCalls, updateTableCalls, thrown, dom, observers>>

----------------------------------------------------------------------------
(* Bounds of the exploration *)

MaxSelections == 3    \* change events per page load
MaxRunLen == 6        \* events of a history over two songs at one instant
MaxWindowLen == 3     \* events of a chronological history over the instants
MaxCatalogueLen == 3  \* events of a history over the whole catalogue
MaxSessionLen == 2    \* events of a history that may break the contract
MaxGenresLen == 4     \* genres in a list passed to getGenres; events of a history over four genres

----------------------------------------------------------------------------
(* The data module: songs *)

Catalogue ==
    ("1" :> [artist |-> "A",   title |-> "One",  genre |-> "Pop",  duration_seconds |-> 100]) @@
    ("2" :> [artist |-> "B",   title |-> "Two",  genre |-> "Jazz", duration_seconds |-> 200]) @@
    ("3" :> [artist |-> "A",   title |-> "Two",  genre |-> "Rock", duration_seconds |-> 100]) @@
    ("4" :> [artist |-> "311", title |-> "Down", genre |-> "7",    duration_seconds |-> 50]) @@
    ("5" :> [artist |-> "",    title |-> "",     genre |-> "",     duration_seconds |-> 0]) @@
    ("6" :> [artist |-> "7",   title |-> "Up",   genre |-> "311",  duration_seconds |-> 50]) @@
    ("7" :> [artist |-> "A - B", title |-> "C",   genre |-> "Pop", duration_seconds |-> 100]) @@
    ("8" :> [artist |-> "A",   title |-> "B - C", genre |-> "Pop", duration_seconds |-> 100])

\* the lookup's answer for a song_id it does not know: undefined, whose
\* fields would read as undefined if reading them did not throw
NoSong ==
    [artist |-> "undefined", title |-> "undefined", genre |-> "undefined",
     duration_seconds |-> 0]

getSong(song_id) == IF song_id \in DOMAIN Catalogue THEN Catalogue[song_id] ELSE NoSong

ReadsUndefinedFields(song) == FALSE

\* song.artist, read of a song that is undefined: TypeError
ThrowsTypeError(song) == song = NoSong

----------------------------------------------------------------------------
(* Date: local calendar fields of a timestamp *)

At(dayNumber, hour, minute) == (dayNumber * 24 + hour) * 60 + minute

\* a timestamp that new Date() cannot parse: the Date is an Invalid Date
Unparseable == -1

IsInvalidDate(timestamp) == timestamp = Unparseable

\* the fields of an Invalid Date; NaN equals no weekday and no hour
NaN == -1

\* "Invalid Date", the date string of an Invalid Date: the string of no day
InvalidDateString == -1

getDay(timestamp) ==
    IF IsInvalidDate(timestamp) THEN NaN ELSE (timestamp \div (24 * 60)) % 7

getHours(timestamp) ==
    IF IsInvalidDate(timestamp) THEN NaN ELSE (timestamp % (24 * 60)) \div 60

toDateString(timestamp) ==
    IF IsInvalidDate(timestamp) THEN InvalidDateString ELSE timestamp \div (24 * 60)

Timestamps ==
    { At(4, 20, 0),    \* Thursday 20:00
      At(5, 16, 59),   \* Friday   16:59
      At(5, 17, 0),    \* Friday   17:00
      At(6, 3, 59),    \* Saturday 03:59
      At(6, 4, 0),     \* Saturday 04:00
      At(7, 2, 0),     \* Sunday   02:00
      At(12, 23, 0) }  \* Friday   23:00, a week later

----------------------------------------------------------------------------
(* JavaScript objects as dictionaries *)

ArrayIndex == ("311" :> 311) @@ ("7" :> 7)

IsArrayIndex(key) == key \in DOMAIN ArrayIndex

HasOwn(obj, key) == \E j \in 1..Len(obj) : obj[j].key = key

Get(obj, key) == obj[CHOOSE j \in 1..Len(obj) : obj[j].key = key].value

\* obj[key] || dflt
GetOr(obj, key, dflt) == IF HasOwn(obj, key) THEN Get(obj, key) ELSE dflt

\* obj[key] = value
Put(obj, key, value) ==
    IF HasOwn(obj, key)
    THEN [j \in 1..Len(obj) |->
            IF obj[j].key = key THEN [key |-> key, value |-> value] ELSE obj[j]]
    ELSE Append(obj, [key |-> key, value |-> value])

RECURSIVE InsertIndexKey(_, _)
InsertIndexKey(sorted, key) ==
    IF sorted = <<>> THEN <<key>>
    ELSE IF ArrayIndex[key] < ArrayIndex[Head(sorted)] THEN <<key>> \o sorted
    ELSE <<Head(sorted)>> \o InsertIndexKey(Tail(sorted), key)

RECURSIVE SortIndexKeys(_)
SortIndexKeys(keys) ==
    IF keys = <<>> THEN <<>>
    ELSE InsertIndexKey(SortIndexKeys(Tail(keys)), Head(keys))

OwnKeys(obj) == [j \in 1..Len(obj) |-> obj[j].key]

IsNamedKey(key) == ~IsArrayIndex(key)

\* Object.keys(obj): array-index keys in ascending numeric order, then the
\* other keys in creation order.
ObjectKeys(obj) ==
    SortIndexKeys(SelectSeq(OwnKeys(obj), IsArrayIndex))
        \o SelectSeq(OwnKeys(obj), IsNamedKey)

PickStrictlyGreater(obj, a, b) ==
    IF HasOwn(obj, a) /\ HasOwn(obj, b) /\ Get(obj, a) > Get(obj, b) THEN a ELSE b

PickSmaller(obj, a, b) ==
    IF HasOwn(obj, a) /\ HasOwn(obj, b) /\ Get(obj, a) <= Get(obj, b) THEN a ELSE b

\* the callback (a, b) => (obj[a] >= obj[b] ? a : b); a comparison with
\* undefined is false.
Pick(obj, a, b) ==
    IF HasOwn(obj, a) /\ HasOwn(obj, b) /\ Get(obj, a) >= Get(obj, b) THEN a ELSE b

RECURSIVE ReduceFrom(_, _, _)
ReduceFrom(obj, keys, acc) ==
    IF keys = <<>> THEN acc
    ELSE ReduceFrom(obj, Tail(keys), Pick(obj, acc, Head(keys)))

\* Object.keys(obj).reduce((a, b) => (obj[a] >= obj[b] ? a : b), "")
ReduceMax(obj) == ReduceFrom(obj, ObjectKeys(obj), "")

\* array.join(sep)
RECURSIVE Join(_, _)
Join(array, sep) ==
    IF array = <<>> THEN ""
    ELSE IF Len(array) = 1 THEN array[1]
    ELSE array[1] \o sep \o Join(Tail(array), sep)

\* array.sort((a, b) => obj[b] - obj[a]): descending by value, stable
RECURSIVE InsertDescending(_, _, _)
InsertDescending(obj, sorted, key) ==
    IF sorted = <<>> THEN <<key>>
    ELSE IF Get(obj, key) > Get(obj, Head(sorted)) THEN <<key>> \o sorted
    ELSE <<Head(sorted)>> \o InsertDescending(obj, Tail(sorted), key)

RECURSIVE SortDescending(_, _)
SortDescending(obj, keys) ==
    IF keys = <<>> THEN <<>>
    ELSE InsertDescending(obj, SortDescending(obj, SubSeq(keys, 1, Len(keys) - 1)),
                          keys[Len(keys)])

\* array.slice(0, n)
Slice(array, n) == SubSeq(array, 1, IF Len(array) < n THEN Len(array) ELSE n)

\* new Set(array).size
DistinctCount(array) == Cardinality({array[j] : j \in 1..Len(array)})

\* an optional array: undefined, or the array data
Undefined == [defined |-> FALSE, data |-> <<>>]
Defined(data) == [defined |-> TRUE, data |-> data]

NoEventsOnlyWhenUndefined(evs) == ~evs.defined

\* !events || events.length === 0
NoEvents(evs) == ~evs.defined \/ Len(evs.data) = 0

\* !data || data.length === 0
NoData(arg) == ~arg.defined \/ Len(arg.data) = 0

----------------------------------------------------------------------------
(* processUserData: the per-event accumulation *)

Friday == 5
Saturday == 6
FridayFromHour == 17
SaturdayBeforeHour == 4
TopGenresLimit == 3

SongKey(song) == song.artist \o " - " \o song.title

IsFridayNightAllFriday(timestamp) ==
    \/ getDay(timestamp) = Friday
    \/ getDay(timestamp) = Saturday /\ getHours(timestamp) < SaturdayBeforeHour

IsFridayNightThroughFour(timestamp) ==
    \/ getDay(timestamp) = Friday /\ getHours(timestamp) >= FridayFromHour
    \/ getDay(timestamp) = Saturday /\ getHours(timestamp) <= SaturdayBeforeHour

\* (day === 5 && hour >= 17) || (day === 6 && hour < 4); of an Invalid Date
\* day is NaN and neither day === 5 nor day === 6 holds
IsFridayNight(timestamp) ==
    \/ getDay(timestamp) = Friday /\ getHours(timestamp) >= FridayFromHour
    \/ getDay(timestamp) = Saturday /\ getHours(timestamp) < SaturdayBeforeHour

AccumulateOverwriting(obj, key, amount) == Put(obj, key, amount)

AccumulateFromOne(obj, key, amount) == Put(obj, key, GetOr(obj, key, 1) + amount)

\* obj[key] = (obj[key] || 0) + amount
Accumulate(obj, key, amount) == Put(obj, key, GetOr(obj, key, 0) + amount)

AddDayToNewSet(obj, key, day) == Put(obj, key, {day})

\* obj[key] = obj[key] || new Set(); obj[key].add(day)
AddDay(obj, key, day) == Put(obj, key, GetOr(obj, key, {}) \cup {day})

TotalDaysCountingEvents(evs) == Len(evs)

\* new Set(events.map((x) => new Date(x.timestamp).toDateString())).size
TotalDays(evs) == DistinctCount([j \in 1..Len(evs) |-> toDateString(evs[j].timestamp)])

StreakAfterWithoutReset(songKey, prev, current) == current + 1

\* if (songKey === prevSong) currentStreak++; else currentStreak = 1
StreakAfter(songKey, prev, current) == IF songKey = prev THEN current + 1 ELSE 1

MaxStreakNeverRaised(current, max) == max

\* if (currentStreak > maxStreak) maxStreak = currentStreak
MaxStreakAfter(current, max) == IF current > max THEN current ELSE max

StreakSongsResetOnTie(songKey, current, max, songs) ==
    IF current >= max THEN <<songKey>> ELSE songs

\* if (currentStreak > maxStreak) streakSongs = [songKey];
\* else if (currentStreak === maxStreak) streakSongs.push(songKey)
StreakSongsAfter(songKey, current, max, songs) ==
    IF current > max THEN <<songKey>>
    ELSE IF current = max THEN Append(songs, songKey)
    ELSE songs

----------------------------------------------------------------------------
(* processUserData: the results computed after the loop *)

mostPlayedSong == ReduceMax(songCount)
mostPlayedSongByTime == ReduceMax(songTime)
mostPlayedArtist == ReduceMax(artistCount)
mostPlayedArtistByTime == ReduceMax(artistTime)
topFridaySong == ReduceMax(fridayNightSongs)
topFridaySongByTime == ReduceMax(fridayNightTime)

topGenres == Slice(SortDescending(genreCount, ObjectKeys(genreCount)), TopGenresLimit)

PlayedEveryDay(song) == Cardinality(Get(songDays, song)) = totalDays

\* Object.keys(songDays).filter((song) => songDays[song].size === totalDays)
everydayList == SelectSeq(ObjectKeys(songDays), PlayedEveryDay)

everydaySongs == Join(everydayList, ", ")

getGenresAlwaysPlural(genres) ==
    [question |-> "Top " \o ToString(Len(genres)) \o " Genres",
     answer |-> Join(genres, ", ")]

getGenres(genres) ==
    [question |-> "Top " \o ToString(Len(genres)) \o " "
                    \o (IF Len(genres) = 1 THEN "Genre" ELSE "Genres"),
     answer |-> Join(genres, ", ")]

\* value && { question, answer: value }, kept by filter(Boolean) when value is truthy
Row(question, value) ==
    IF value = "" THEN <<>> ELSE <<[question |-> question, answer |-> value]>>

StreakRowOnlyForRepeats ==
    IF maxStreak < 2 THEN <<>>
    ELSE <<[question |-> "Longest streak song",
            answer |-> Join(streakSongs, ", ") \o " (length: "
                         \o ToString(maxStreak) \o ")"]>>

\* streakSongs.length && { question, answer }
StreakRow ==
    IF Len(streakSongs) = 0 THEN <<>>
    ELSE <<[question |-> "Longest streak song",
            answer |-> Join(streakSongs, ", ") \o " (length: "
                         \o ToString(maxStreak) \o ")"]>>

GenresRow == IF Len(topGenres) = 0 THEN <<>> ELSE <<getGenres(topGenres)>>

ResultsStreakFirst ==
    StreakRow
    \o Row("Most listened song (count)", mostPlayedSong)
    \o Row("Most listened song (time)", mostPlayedSongByTime)
    \o Row("Most listened artist (count)", mostPlayedArtist)
    \o Row("Most listened artist (time)", mostPlayedArtistByTime)
    \o Row("Friday night song (count)", topFridaySong)
    \o Row("Friday night song (time)", topFridaySongByTime)
    \o Row("Every day songs", everydaySongs)
    \o GenresRow

Results ==
    Row("Most listened song (count)", mostPlayedSong)
    \o Row("Most listened song (time)", mostPlayedSongByTime)
    \o Row("Most listened artist (count)", mostPlayedArtist)
    \o Row("Most listened artist (time)", mostPlayedArtistByTime)
    \o Row("Friday night song (count)", topFridaySong)
    \o Row("Friday night song (time)", topFridaySongByTime)
    \o StreakRow
    \o Row("Every day songs", everydaySongs)
    \o GenresRow

----------------------------------------------------------------------------
(* script.mjs: updateTable *)

\* deleteElement(id) removes the first element with that id, if there is one
DeleteOne(count) == IF count > 0 THEN count - 1 ELSE 0

\* a tr with two cells: the entry's question, then the entry's answer
TableRow(entry) == [question |-> entry.question, answer |-> entry.answer]

RowsLeftInPlace(tbody) == tbody

\* tbody.innerHTML = "": the rows the body held are gone
ClearedRows(tbody) == <<>>

RECURSIVE AppendRows(_, _)
\* data.forEach(entry => ... tbody.appendChild(row))
AppendRows(tbody, data) ==
    IF data = <<>> THEN tbody
    ELSE AppendRows(Append(tbody, TableRow(Head(data))), Tail(data))

updateTableKeepingTheTable(arg) ==
    IF NoData(arg)
    THEN /\ UNCHANGED <<musicTable, musicTableBody>>
         /\ noUserMessage' = noUserMessage + 1
    ELSE /\ musicTable' = TRUE
         /\ noUserMessage' = DeleteOne(noUserMessage)
         /\ musicTableBody' = AppendRows(ClearedRows(musicTableBody), arg.data)

updateTable(arg) ==
    IF NoData(arg)
    THEN /\ musicTable' = FALSE                 \* deleteElement("musicTable")
         /\ musicTableBody' = <<>>              \* its tbody goes with it
         /\ noUserMessage' = noUserMessage + 1  \* createMessage()
    ELSE /\ musicTable' = TRUE                  \* createTable() unless present
         /\ noUserMessage' = DeleteOne(noUserMessage)
         /\ musicTableBody' = AppendRows(ClearedRows(musicTableBody), arg.data)

----------------------------------------------------------------------------
(* The inputs: what getListenEvents may return *)

Event(song_id, timestamp) == [song_id |-> song_id, timestamp |-> timestamp]

SeqsUpTo(alphabet, n) == UNION {[1..k -> alphabet] : k \in 0..n}

Chronological(evs) ==
    \A j \in 1..(Len(evs) - 1) : evs[j].timestamp <= evs[j + 1].timestamp

\* two songs replayed at one instant
RunHistories == SeqsUpTo({Event(id, At(4, 20, 0)) : id \in {"1", "2"}}, MaxRunLen)

\* two songs over the instants around the Friday-night window, in time order
WindowHistories ==
    {evs \in SeqsUpTo({Event(id, t) : id \in {"1", "2"}, t \in Timestamps}, MaxWindowLen) :
        Chronological(evs)}

\* every song of the catalogue at one instant
CatalogueHistories ==
    SeqsUpTo({Event(id, At(4, 20, 0)) : id \in DOMAIN Catalogue}, MaxCatalogueLen)

Histories ==
    {Undefined} \cup {Defined(evs) : evs \in RunHistories \cup WindowHistories \cup CatalogueHistories}

\* later selections of a page load
LaterHistories ==
    {Undefined} \cup {Defined(evs) :
        evs \in SeqsUpTo({Event("1", At(5, 17, 0)), Event("2", At(4, 20, 0))}, 1)}

HistoriesAt(n) == IF n = 0 THEN Histories ELSE LaterHistories

UserValues == {"", "1"}

----------------------------------------------------------------------------
(* The state machine *)

NoLocals ==
    /\ userID = ""
    /\ events = Undefined /\ i = 0
    /\ songCount = <<>> /\ songTime = <<>>
    /\ artistCount = <<>> /\ artistTime = <<>> /\ genreCount = <<>>
    /\ fridayNightSongs = <<>> /\ fridayNightTime = <<>> /\ songDays = <<>>
    /\ maxStreak = 0 /\ currentStreak = 1 /\ streakSongs = <<>> /\ prevSong = ""
    /\ totalDays = 0
    /\ results = <<>>

\* no invocation has finished yet
NoCall ==
    [made |-> FALSE, events |-> Undefined, handed |-> <<>>, thrown |-> FALSE,
     repeats |-> FALSE]

\* the unit test has not called getGenres yet
NotReturned == [question |-> "", answer |-> ""]

\* window.onload: createContent() builds the dropdown; no table, no message
Init ==
    /\ pc = "idle"
    /\ selections = 0
    /\ NoLocals
    /\ getSongCalls = 0
    /\ updateTableCalls = <<>>
    /\ thrown = FALSE
    /\ musicTable = FALSE
    /\ musicTableBody = <<>>
    /\ noUserMessage = 0
    /\ lastCall = NoCall
    /\ genreList = <<>>
    /\ genreInsight = NotReturned
    /\ changeValue = ""

ModuleLevel(kept, declared) == kept

\* const / let in the body of processUserData: the variable is the
\* invocation's own. It has its declared value at entry, whatever an earlier
\* invocation computed, and is gone at the return (modelled as the declared
\* value again).
Local(kept, declared) == declared

\* the locals of an invocation are gone when it returns
Return ==
    /\ pc' = "idle"
    /\ userID' = ""
    /\ events' = Undefined /\ i' = 0
    /\ songCount' = Local(songCount, <<>>) /\ songTime' = Local(songTime, <<>>)
    /\ artistCount' = Local(artistCount, <<>>) /\ artistTime' = Local(artistTime, <<>>)
    /\ genreCount' = Local(genreCount, <<>>)
    /\ fridayNightSongs' = Local(fridayNightSongs, <<>>)
    /\ fridayNightTime' = Local(fridayNightTime, <<>>)
    /\ songDays' = Local(songDays, <<>>)
    /\ maxStreak' = Local(maxStreak, 0) /\ currentStreak' = Local(currentStreak, 1)
    /\ streakSongs' = Local(streakSongs, <<>>) /\ prevSong' = Local(prevSong, "")
    /\ totalDays' = 0
    /\ results' = <<>>

ChangeWithoutTheTest(value, history) ==
    /\ pc = "idle"
    /\ selections < MaxSelections
    /\ selections' = selections + 1
    /\ pc' = "begin"
    /\ userID' = value
    /\ events' = history
    /\ getSongCalls' = 0
    /\ updateTableCalls' = <<>>
    /\ thrown' = FALSE
    /\ UNCHANGED <<i, songCount, songTime, artistCount, artistTime, genreCount,
                   fridayNightSongs, fridayNightTime, songDays, maxStreak,
                   currentStreak, streakSongs, prevSong, totalDays, results, dom>>

\* the dropdown's change listener with event.target.value = value: if the
\* value is truthy it calls processUserData(value), which starts with
\* const events = getListenEvents(userID), which returns history
Change(value, history) ==
    /\ pc = "idle"
    /\ selections < MaxSelections
    /\ selections' = selections + 1
    /\ IF value = ""
       THEN UNCHANGED <<pc, locals, getSongCalls, updateTableCalls, thrown, dom>>
       ELSE /\ pc' = "begin"
            /\ userID' = value
            /\ events' = history
            /\ getSongCalls' = 0
            /\ updateTableCalls' = <<>>
            /\ thrown' = FALSE
            /\ UNCHANGED <<i, songCount, songTime, artistCount, artistTime, genreCount,
                           fridayNightSongs, fridayNightTime, songDays, maxStreak,
                           currentStreak, streakSongs, prevSong, totalDays, results, dom>>

\* the no-history exit, or else the initialisation of the accumulators
Begin ==
    /\ pc = "begin"
    /\ IF NoEvents(events)
       THEN /\ updateTable(Undefined)
            /\ updateTableCalls' = Append(updateTableCalls, Undefined)
            /\ Return
       ELSE /\ pc' = "scan"
            /\ i' = 0
            /\ songCount' = Local(songCount, <<>>) /\ songTime' = Local(songTime, <<>>)
            /\ artistCount' = Local(artistCount, <<>>)
            /\ artistTime' = Local(artistTime, <<>>)
            /\ genreCount' = Local(genreCount, <<>>)
            /\ fridayNightSongs' = Local(fridayNightSongs, <<>>)
            /\ fridayNightTime' = Local(fridayNightTime, <<>>)
            /\ songDays' = Local(songDays, <<>>)
            /\ maxStreak' = Local(maxStreak, 0) /\ currentStreak' = Local(currentStreak, 1)
            /\ streakSongs' = Local(streakSongs, <<>>) /\ prevSong' = Local(prevSong, "")
            /\ totalDays' = TotalDays(events.data)
            /\ results' = <<>>
            /\ UNCHANGED <<userID, events, updateTableCalls, dom>>
    /\ UNCHANGED <<selections, getSongCalls, thrown>>

\* one iteration of for (let event of events); reading song.artist of a song
\* that getSong did not find throws, and nothing in processUserData or in the
\* change listener catches it
ProcessEvent ==
    /\ pc = "scan"
    /\ i < Len(events.data)
    /\ LET event == events.data[i + 1]
           song == getSong(event.song_id)
           songKey == SongKey(song)
           date == event.timestamp
           current == StreakAfter(songKey, prevSong, currentStreak)
       IN /\ getSongCalls' = getSongCalls + 1
          /\ IF ThrowsTypeError(song)
             THEN /\ thrown' = TRUE
                  /\ Return
                  /\ UNCHANGED <<updateTableCalls, dom>>
             ELSE /\ songCount' = Accumulate(songCount, songKey, 1)
                  /\ songTime' = Accumulate(songTime, songKey, song.duration_seconds)
                  /\ artistCount' = Accumulate(artistCount, song.artist, 1)
                  /\ artistTime' = Accumulate(artistTime, song.artist, song.duration_seconds)
                  /\ genreCount' = Accumulate(genreCount, song.genre, 1)
                  /\ IF IsFridayNight(date)
                     THEN /\ fridayNightSongs' = Accumulate(fridayNightSongs, songKey, 1)
                          /\ fridayNightTime' =
                                 Accumulate(fridayNightTime, songKey, song.duration_seconds)
                     ELSE UNCHANGED <<fridayNightSongs, fridayNightTime>>
                  /\ songDays' = AddDay(songDays, songKey, toDateString(date))
                  /\ currentStreak' = current
                  /\ prevSong' = songKey
                  /\ maxStreak' = MaxStreakAfter(current, maxStreak)
                  /\ streakSongs' = StreakSongsAfter(songKey, current, maxStreak, streakSongs)
                  /\ i' = i + 1
                  /\ UNCHANGED <<pc, userID, events, totalDays, results, updateTableCalls,
                                 thrown, dom>>
    /\ UNCHANGED selections

ComputeResultsInsideTheLoop ==
    /\ pc = "scan"
    /\ i >= 1
    /\ results' = Results
    /\ pc' = "emit"
    /\ UNCHANGED <<selections, userID, events, i, songCount, songTime, artistCount, artistTime,
                   genreCount, fridayNightSongs, fridayNightTime, songDays, maxStreak,
                   currentStreak, streakSongs, prevSong, totalDays, getSongCalls,
                   updateTableCalls, thrown, dom>>

\* the reductions after the loop and the results array
ComputeResults ==
    /\ pc = "scan"
    /\ i = Len(events.data)
    /\ results' = Results
    /\ pc' = "emit"
    /\ UNCHANGED <<selections, userID, events, i, songCount, songTime, artistCount, artistTime,
                   genreCount, fridayNightSongs, fridayNightTime, songDays, maxStreak,
                   currentStreak, streakSongs, prevSong, totalDays, getSongCalls,
                   updateTableCalls, thrown, dom>>

\* updateTable(results) and the return
Emit ==
    /\ pc = "emit"
    /\ updateTable(Defined(results))
    /\ updateTableCalls' = Append(updateTableCalls, Defined(results))
    /\ Return
    /\ UNCHANGED <<selections, getSongCalls, thrown>>

\* the page, with histories that keep the contract of getListenEvents and getSong
Next ==
    \/ \E value \in UserValues, history \in HistoriesAt(selections) :
           Change(value, history) /\ UNCHANGED observers
    \/ Begin /\ UNCHANGED observers
    \/ ProcessEvent /\ UNCHANGED observers
    \/ ComputeResults /\ UNCHANGED observers
    \/ Emit /\ UNCHANGED observers

Spec == Init /\ [][Next]_vars

----------------------------------------------------------------------------
(* The page over several selections, with histories that may break the
   contract; lastCall keeps the latest finished invocation *)

UnknownSongId == "9"

SessionEvents ==
    { Event("1", At(4, 20, 0)), Event(UnknownSongId, At(4, 20, 0)),
      Event("2", Unparseable) }

SessionHistories ==
    {Undefined} \cup {Defined(evs) : evs \in SeqsUpTo(SessionEvents, MaxSessionLen)}

\* the values of the dropdown's options: the placeholder and two listeners
SessionUserValues == {"", "1", "2"}

\* when the step ends the invocation, keep what it was given and what it did
Record ==
    lastCall' =
        IF pc' = "idle"
        THEN [made |-> TRUE, events |-> events, handed |-> updateTableCalls',
              thrown |-> thrown',
              repeats |-> lastCall.made /\ lastCall.events = events]
        ELSE lastCall

NextSession ==
    \/ /\ pc = "idle"
       /\ \E value \in SessionUserValues, history \in SessionHistories :
              /\ Change(value, history)
              /\ changeValue' = value
              /\ UNCHANGED <<lastCall, genreList, genreInsight>>
    \/ Begin /\ Record /\ UNCHANGED <<genreList, genreInsight, changeValue>>
    \/ ProcessEvent /\ Record /\ UNCHANGED <<genreList, genreInsight, changeValue>>
    \/ ComputeResults /\ UNCHANGED observers
    \/ Emit /\ Record /\ UNCHANGED <<genreList, genreInsight, changeValue>>

SessionSpec == Init /\ [][NextSession]_vars

----------------------------------------------------------------------------
(* getGenres called by its unit test, and by the page for songs of four
   genres; a run is the test or a page load *)

GenreNames == {"rock", "vals", "metal"}

GenreLists == SeqsUpTo(GenreNames, MaxGenresLen)

\* songs of four genres at one instant
GenreHistories ==
    SeqsUpTo({Event(id, At(4, 20, 0)) : id \in {"1", "2", "3", "4"}}, MaxGenresLen)

GenresInit ==
    /\ pc = "idle"
    /\ selections = 0
    /\ NoLocals
    /\ getSongCalls = 0
    /\ updateTableCalls = <<>>
    /\ thrown = FALSE
    /\ musicTable = FALSE
    /\ musicTableBody = <<>>
    /\ noUserMessage = 0
    /\ lastCall = NoCall
    /\ genreList \in GenreLists
    /\ genreInsight = NotReturned
    /\ changeValue = ""

\* expect(getGenres(list)): the call
CallGetGenres ==
    /\ pc = "idle"
    /\ selections = 0
    /\ genreInsight = NotReturned
    /\ genreInsight' = getGenres(genreList)
    /\ UNCHANGED <<pc, selections, locals, getSongCalls, updateTableCalls, thrown, dom,
                   lastCall, genreList, changeValue>>

NextGenres ==
    \/ CallGetGenres
    \/ /\ pc = "idle"
       /\ selections = 0
       /\ genreList = <<>>
       /\ genreInsight = NotReturned
       /\ \E evs \in GenreHistories :
              Change("1", Defined(evs)) /\ UNCHANGED observers
    \/ Begin /\ UNCHANGED observers
    \/ ProcessEvent /\ UNCHANGED observers
    \/ ComputeResults /\ UNCHANGED observers
    \/ Emit /\ UNCHANGED observers

GenresSpec == GenresInit /\ [][NextGenres]_vars

----------------------------------------------------------------------------
(* The event sequence of the invocation, read independently of the scan *)

history == events.data

KeyAt(j) == SongKey(getSong(history[j].song_id))

KeysSeen == {KeyAt(j) : j \in 1..Len(history)}

\* positions a..b hold one SongKey
IsRun(a, b) == a <= b /\ \A j \in a..b : KeyAt(j) = KeyAt(a)

Runs == {ab \in (1..Len(history)) \X (1..Len(history)) : IsRun(ab[1], ab[2])}

LongestRun ==
    CHOOSE n \in 1..Len(history) :
        /\ \E ab \in Runs : ab[2] - ab[1] + 1 = n
        /\ \A ab \in Runs : ab[2] - ab[1] + 1 <= n

HasRunOfLength(key, n) ==
    \E ab \in Runs : KeyAt(ab[1]) = key /\ ab[2] - ab[1] + 1 = n

CalendarDay(j) == history[j].timestamp \div (24 * 60)

DaysListened == {CalendarDay(j) : j \in 1..Len(history)}

DaysPlayed(key) == {CalendarDay(j) : j \in {n \in 1..Len(history) : KeyAt(n) = key}}

Elements(array) == {array[j] : j \in 1..Len(array)}

Positions == 1..Len(history)

RECURSIVE SumAt(_, _)
SumAt(weight, positions) ==
    IF positions = {} THEN 0
    ELSE LET j == CHOOSE n \in positions : TRUE
         IN weight[j] + SumAt(weight, positions \ {j})

\* Friday 17:00:00 through Saturday 03:59:59, by the minute of the week
InWindow(j) ==
    LET minuteOfWeek == history[j].timestamp % (7 * 24 * 60)
    IN minuteOfWeek >= At(5, 17, 0) /\ minuteOfWeek < At(6, 4, 0)

RECURSIVE SumValues(_)
SumValues(obj) == IF obj = <<>> THEN 0 ELSE Head(obj).value + SumValues(Tail(obj))

\* getListenEvents returned no list, or an empty one
NoHistory == ~events.defined \/ events.data = <<>>

\* What each max-reduction accumulates: the key of an event, the events
\* that count, and what an event adds.
SongKeys == [j \in Positions |-> KeyAt(j)]
Artists == [j \in Positions |-> getSong(history[j].song_id).artist]
Genres == [j \in Positions |-> getSong(history[j].song_id).genre]
Plays == [j \in Positions |-> 1]
Seconds == [j \in Positions |-> getSong(history[j].song_id).duration_seconds]
WindowPositions == {j \in Positions : InWindow(j)}

Reductions ==
    << [key |-> SongKeys, of |-> Positions,       adds |-> Plays,   result |-> mostPlayedSong],
       [key |-> SongKeys, of |-> Positions,       adds |-> Seconds, result |-> mostPlayedSongByTime],
       [key |-> Artists,  of |-> Positions,       adds |-> Plays,   result |-> mostPlayedArtist],
       [key |-> Artists,  of |-> Positions,       adds |-> Seconds, result |-> mostPlayedArtistByTime],
       [key |-> SongKeys, of |-> WindowPositions, adds |-> Plays,   result |-> topFridaySong],
       [key |-> SongKeys, of |-> WindowPositions, adds |-> Seconds, result |-> topFridaySongByTime] >>

KeysOf(r) == {r.key[j] : j \in r.of}

TotalOf(r, key) == SumAt(r.adds, {j \in r.of : r.key[j] = key})

IsMaximal(r, key) ==
    key \in KeysOf(r) /\ \A other \in KeysOf(r) : TotalOf(r, key) >= TotalOf(r, other)

Earliest(positions) == CHOOSE j \in positions : \A n \in positions : j <= n

\* first occurrence of the key in the event sequence
FirstInHistory(r, key) == Earliest({j \in Positions : r.key[j] = key})

\* first event that was accumulated under the key
FirstAccumulated(r, key) == Earliest({j \in r.of : r.key[j] = key})

\* a comes before b when the keys of the accumulator are compared: the empty
\* key, then array-index keys by number, then the others as first accumulated
ComparedBefore(r, a, b) ==
    /\ a # b
    /\ \/ a = ""
       \/ /\ b # ""
          /\ \/ IsArrayIndex(a) /\ ~IsArrayIndex(b)
             \/ IsArrayIndex(a) /\ IsArrayIndex(b) /\ ArrayIndex[a] < ArrayIndex[b]
             \/ /\ ~IsArrayIndex(a) /\ ~IsArrayIndex(b)
                /\ FirstAccumulated(r, a) < FirstAccumulated(r, b)

Questions(rows) == {rows[j].question : j \in 1..Len(rows)}

AnswerTo(rows, question) ==
    rows[CHOOSE j \in 1..Len(rows) : rows[j].question = question].answer

----------------------------------------------------------------------------
(* Claims *)

\* C1: when the scan of a non-empty event sequence is over, maxStreak, and the
\* length reported in the "Longest streak song" answer, is the length of the
\* longest run of consecutive events with one SongKey, whatever their dates.
C1_MaxStreakIsLongestRun ==
    pc = "emit" =>
        /\ maxStreak = LongestRun
        /\ "Longest streak song" \in Questions(results)
        /\ AnswerTo(results, "Longest streak song") =
               Join(streakSongs, ", ") \o " (length: " \o ToString(LongestRun) \o ")"

\* C1 witness: the history [A, A, A, B, A, A] has been scanned and gave 3.
C1_Witness ==
    /\ pc = "emit"
    /\ [j \in 1..Len(history) |-> history[j].song_id] = <<"1", "1", "1", "2", "1", "1">>
    /\ maxStreak = 3

\* C2 (as claimed): when the scan is over, streakSongs lists exactly the
\* SongKeys that have a run of length maxStreak, each of them once.
C2_StreakSongsIsTheTiedSet ==
    pc = "emit" =>
        /\ Elements(streakSongs) = {key \in KeysSeen : HasRunOfLength(key, maxStreak)}
        /\ \A a, b \in 1..Len(streakSongs) : streakSongs[a] = streakSongs[b] => a = b

\* C3: when the scan is over, a SongKey is among the every-day songs iff the
\* number of distinct calendar days it was played on equals the number of
\* distinct calendar days of the whole sequence; only SongKeys of the events
\* are listed, and the "Every day songs" row is there iff some song qualifies,
\* its answer being the qualifying SongKeys joined.
C3_EverydaySongs ==
    pc = "emit" =>
        LET qualifying ==
                {key \in KeysSeen : Cardinality(DaysPlayed(key)) = Cardinality(DaysListened)}
        IN /\ Elements(everydayList) = qualifying
           /\ Elements(everydayList) \subseteq KeysSeen
           /\ ("Every day songs" \in Questions(results)) <=> (qualifying # {})
           /\ "Every day songs" \in Questions(results) =>
                  AnswerTo(results, "Every day songs") = Join(everydayList, ", ")

\* C3 witness: over two or more days, one song was played on every day and
\* another was not.
C3_Witness ==
    /\ pc = "emit"
    /\ Cardinality(DaysListened) >= 2
    /\ \E key \in KeysSeen : Cardinality(DaysPlayed(key)) = Cardinality(DaysListened)
    /\ \E key \in KeysSeen : Cardinality(DaysPlayed(key)) < Cardinality(DaysListened)
    /\ "Every day songs" \in Questions(results)

\* C3 second case: no song was played on every day and the row is omitted.
C3_NoneQualifies ==
    /\ pc = "emit"
    /\ \A key \in KeysSeen : Cardinality(DaysPlayed(key)) < Cardinality(DaysListened)
    /\ "Every day songs" \notin Questions(results)

C5_SelectedKeyIsMaximal ==
    pc = "emit" =>
        \A n \in 1..Len(Reductions) :
            LET r == Reductions[n]
            IN KeysOf(r) # {} =>
                   /\ r.result \in KeysOf(r)
                   /\ \A other \in KeysOf(r) : TotalOf(r, r.result) >= TotalOf(r, other)

\* C5 witness: the most listened song by count has strictly more plays than
\* the song that occurred first.
C5_Witness ==
    /\ pc = "emit"
    /\ mostPlayedSong # KeyAt(1)
    /\ TotalOf(Reductions[1], mostPlayedSong) > TotalOf(Reductions[1], KeyAt(1))
    /\ TotalOf(Reductions[2], mostPlayedSongByTime) > TotalOf(Reductions[2], mostPlayedSong)

\* C6: at every point of the scan, the Friday-night count and duration of a
\* song are those of its processed events whose local time lies from Friday
\* 17:00 to Saturday 03:59; events outside the window add nothing.
C6_FridayNightWindow ==
    pc \in {"scan", "emit"} =>
        \A key \in KeysSeen :
            LET counted == {j \in 1..i : KeyAt(j) = key /\ InWindow(j)}
            IN /\ GetOr(fridayNightSongs, key, 0) = Cardinality(counted)
               /\ GetOr(fridayNightTime, key, 0) = SumAt(Seconds, counted)
               /\ HasOwn(fridayNightSongs, key) <=> counted # {}
               /\ HasOwn(fridayNightTime, key) <=> counted # {}

\* C6 witness: Friday 16:59, Saturday 03:59 and Saturday 04:00 were scanned
\* and only the Saturday 03:59 event was counted.
C6_Witness ==
    /\ pc = "emit"
    /\ [j \in Positions |-> history[j].timestamp] = <<At(5, 16, 59), At(6, 3, 59), At(6, 4, 0)>>
    /\ Len(fridayNightSongs) = 1
    /\ fridayNightSongs[1].value = 1

\* C6 second case: Friday 17:00 is counted, Thursday evening and the small
\* hours of Sunday are not.
C6_FridayFive ==
    /\ pc = "emit"
    /\ [j \in Positions |-> history[j].timestamp] = <<At(4, 20, 0), At(5, 17, 0), At(7, 2, 0)>>
    /\ Len(fridayNightSongs) = 1
    /\ fridayNightSongs[1].value = 1

\* C7 (as claimed): when the scan is over, topGenres lists min(3, number of
\* distinct genres) genres, in descending order of play count, genres with
\* equal counts in the order of their first occurrence, and no genre left out
\* has more plays than a listed one.
C7_TopGenres ==
    pc = "emit" =>
        LET r == [key |-> Genres, of |-> Positions, adds |-> Plays]
            distinct == Cardinality(KeysOf(r))
        IN /\ Len(topGenres) = (IF distinct < 3 THEN distinct ELSE 3)
           /\ Elements(topGenres) \subseteq KeysOf(r)
           /\ \A a, b \in 1..Len(topGenres) :
                  a < b =>
                      \/ TotalOf(r, topGenres[a]) > TotalOf(r, topGenres[b])
                      \/ /\ TotalOf(r, topGenres[a]) = TotalOf(r, topGenres[b])
                         /\ FirstInHistory(r, topGenres[a]) < FirstInHistory(r, topGenres[b])
           /\ \A out \in KeysOf(r) \ Elements(topGenres) :
                  \A a \in 1..Len(topGenres) : TotalOf(r, out) <= TotalOf(r, topGenres[a])

\* C8: when getListenEvents returned an empty or absent list, processUserData
\* calls updateTable once, without data, calls getSong never, computes no
\* statistic and no results array, and returns.
C8_NoHistoryShortCircuits ==
    [][ pc = "begin" /\ NoHistory =>
            /\ pc' = "idle"
            /\ updateTableCalls' = <<Undefined>>
            /\ getSongCalls' = 0
            /\ results' = <<>>
            /\ songCount' = <<>> /\ songTime' = <<>> /\ artistCount' = <<>>
            /\ artistTime' = <<>> /\ genreCount' = <<>> /\ songDays' = <<>>
            /\ fridayNightSongs' = <<>> /\ fridayNightTime' = <<>>
            /\ maxStreak' = 0 /\ streakSongs' = <<>> /\ totalDays' = 0
            /\ i' = 0 ]_vars

\* C8 witness: an invocation has returned after its single updateTable call
\* without data, the message is on the page and no song was looked up.
C8_Witness ==
    /\ pc = "idle"
    /\ updateTableCalls = <<Undefined>>
    /\ getSongCalls = 0
    /\ noUserMessage = 1
    /\ ~musicTable

\* C9: for a non-empty event sequence the results array handed to updateTable
\* is non-empty: it has the song-by-count, song-by-time, longest-streak and
\* top-genres rows, and updateTable shows them in the table without creating
\* the message; the "No music for this user" message is created in exactly
\* the steps in which an invocation finds no events.
C9_NoDataOnlyWithoutEvents ==
    /\ [](pc = "emit" =>
            /\ ~NoHistory
            /\ Len(results) > 0
            /\ {"Most listened song (count)", "Most listened song (time)",
                "Longest streak song"} \subseteq Questions(results)
            /\ Questions(results) \cap {"Top 1 Genre", "Top 2 Genres", "Top 3 Genres"} # {})
    /\ [][ /\ pc = "emit" =>
                /\ updateTableCalls' = <<Defined(results)>>
                /\ musicTable'
                /\ musicTableBody' = results
                /\ noUserMessage' <= noUserMessage
           /\ noUserMessage' > noUserMessage <=> pc = "begin" /\ NoHistory ]_vars

\* C9 witness: a table was rendered for a history whose artist rows were
\* dropped (the artist's name is empty), and no message is on the page.
C9_Witness ==
    /\ pc = "idle"
    /\ musicTable
    /\ noUserMessage = 0
    /\ Len(updateTableCalls) = 1
    /\ updateTableCalls[1].defined
    /\ musicTableBody = updateTableCalls[1].data
    /\ "Most listened artist (count)" \notin Questions(musicTableBody)
    /\ "Longest streak song" \in Questions(musicTableBody)

\* C10: at every point of the scan the per-song play counts sum to the number
\* of events processed so far; when the scan is over, to the number of events.
C10_SongCountsSumToEvents ==
    /\ pc \in {"scan", "emit"} => SumValues(songCount) = i
    /\ pc = "emit" => SumValues(songCount) = Len(history)

\* C10 witness: in the middle of a scan, three events of two songs processed.
C10_Witness ==
    /\ pc = "scan"
    /\ i = 3
    /\ i < Len(history)
    /\ Len(songCount) = 2
    /\ SumValues(songCount) = 3

----------------------------------------------------------------------------
(* The candidate rows *)

Candidates ==
    << "Most listened song (count)", "Most listened song (time)",
       "Most listened artist (count)", "Most listened artist (time)",
       "Friday night song (count)", "Friday night song (time)",
       "Longest streak song", "Every day songs" >>

GenresQuestions == {"Top 1 Genre", "Top 2 Genres", "Top 3 Genres"}

\* the place of a question in the candidate order, 0 for a question that is
\* no candidate's
Rank(question) ==
    IF \E n \in 1..Len(Candidates) : Candidates[n] = question
    THEN CHOOSE n \in 1..Len(Candidates) : Candidates[n] = question
    ELSE IF question \in GenresQuestions THEN Len(Candidates) + 1
    ELSE 0

Ranks(rows) == [j \in 1..Len(rows) |-> Rank(rows[j].question)]

InCandidateOrder(rows) ==
    /\ \A a \in 1..Len(rows) : Rank(rows[a].question) \in 1..(Len(Candidates) + 1)
    /\ \A a, b \in 1..Len(rows) :
           a < b => Rank(rows[a].question) < Rank(rows[b].question)

\* C11: the results array, and every list handed to updateTable, is a
\* subsequence of the candidate order song (count), song (time), artist
\* (count), artist (time), Friday night song (count), Friday night song (time),
\* longest streak song, every day songs, top genres: every row is a
\* candidate's, none appears twice and none comes before an earlier candidate.
C11_RowsInCandidateOrder ==
    /\ pc = "emit" => InCandidateOrder(results)
    /\ \A n \in 1..Len(updateTableCalls) :
           updateTableCalls[n].defined => InCandidateOrder(updateTableCalls[n].data)

\* C11 witness: a list without the Friday-night rows and the every-day row,
\* the other six rows in their order, was handed to updateTable.
C11_Witness ==
    /\ pc = "idle"
    /\ Len(updateTableCalls) = 1
    /\ updateTableCalls[1].defined
    /\ Ranks(updateTableCalls[1].data) = <<1, 2, 3, 4, 7, 9>>

\* C12 (as claimed): every row of the results array, and of every list handed
\* to updateTable, has a non-empty question and a non-empty answer.
C12_NoBlankRows ==
    /\ pc = "emit" =>
           \A j \in 1..Len(results) : results[j].question # "" /\ results[j].answer # ""
    /\ \A n \in 1..Len(updateTableCalls) :
           \A j \in 1..Len(updateTableCalls[n].data) :
               /\ updateTableCalls[n].data[j].question # ""
               /\ updateTableCalls[n].data[j].answer # ""

\* C13: when the scan is over, the "Friday night song (count)" row and the
\* "Friday night song (time)" row are each in the results iff some event of
\* the sequence lies in the Friday-night window, and then each names a song
\* that has an event in the window.
C13_FridayRowsIffWindowEvent ==
    pc = "emit" =>
        LET played == {KeyAt(j) : j \in WindowPositions}
        IN /\ ("Friday night song (count)" \in Questions(results)) <=> (WindowPositions # {})
           /\ ("Friday night song (time)" \in Questions(results)) <=> (WindowPositions # {})
           /\ WindowPositions # {} =>
                  /\ AnswerTo(results, "Friday night song (count)") \in played
                  /\ AnswerTo(results, "Friday night song (time)") \in played

\* C13 witness: one song was played in the window and another only outside
\* it; both rows are there.
C13_Witness ==
    /\ pc = "emit"
    /\ WindowPositions # {}
    /\ \E j \in Positions : KeyAt(j) \notin {KeyAt(n) : n \in WindowPositions}
    /\ {"Friday night song (count)", "Friday night song (time)"} \subseteq Questions(results)

\* C13 second case: events on Friday 16:59 and Saturday 04:00 only, and
\* neither row is there.
C13_NoneInWindow ==
    /\ pc = "emit"
    /\ {history[j].timestamp : j \in Positions} = {At(5, 16, 59), At(6, 4, 0)}
    /\ Questions(results) \cap {"Friday night song (count)", "Friday night song (time)"} = {}

----------------------------------------------------------------------------
(* The label and the answer of a list of genres, written out *)

Numerals == <<"0", "1", "2", "3", "4", "5", "6", "7", "8", "9">>

ExpectedQuestion(n) ==
    "Top " \o Numerals[n + 1] \o (IF n = 1 THEN " Genre" ELSE " Genres")

\* the elements from left to right, ", " before each but the first
RECURSIVE CommaSeparated(_, _)
CommaSeparated(array, n) ==
    IF n = 0 THEN ""
    ELSE IF n = 1 THEN array[1]
    ELSE CommaSeparated(array, n - 1) \o ", " \o array[n]

\* C14: getGenres(list) returns the question "Top N Genre" for a list of
\* N = 1 elements and "Top N Genres" for a list of any other length N, and as
\* answer the elements of the list in their order, separated by ", "; the
\* top-genres row of processUserData is that of topGenres, N being the number
\* of genres in it (the distinct genres of the events, at most three).
C14_GetGenresLabelAndAnswer ==
    /\ genreInsight # NotReturned =>
           /\ genreInsight.question = ExpectedQuestion(Len(genreList))
           /\ genreInsight.answer = CommaSeparated(genreList, Len(genreList))
    /\ pc = "emit" =>
           LET distinct == Cardinality({Genres[j] : j \in Positions})
               n == IF distinct < TopGenresLimit THEN distinct ELSE TopGenresLimit
           IN /\ Len(topGenres) = n
              /\ results[Len(results)] =
                     [question |-> ExpectedQuestion(n),
                      answer |-> CommaSeparated(topGenres, n)]

\* C14 witness: the list of the single genre "rock" gave "Top 1 Genre".
C14_Witness ==
    /\ genreList = <<"rock">>
    /\ genreInsight = [question |-> "Top 1 Genre", answer |-> "rock"]

\* C14 second case: a list of three genres.
C14_ThreeGenres ==
    /\ genreList = <<"vals", "metal", "rock">>
    /\ genreInsight = [question |-> "Top 3 Genres", answer |-> "vals, metal, rock"]

\* C14 third case: the empty list and a list of four genres.
C14_NoneOrFour ==
    \/ /\ genreList = <<>>
       /\ genreInsight = [question |-> "Top 0 Genres", answer |-> ""]
    \/ /\ Len(genreList) = 4
       /\ genreInsight.question = "Top 4 Genres"

\* C14 fourth case: processUserData labelled three of the four genres played.
C14_InProcessUserData ==
    /\ pc = "emit"
    /\ Cardinality({Genres[j] : j \in Positions}) = 4
    /\ Len(topGenres) = 3
    /\ results[Len(results)].question = "Top 3 Genres"

----------------------------------------------------------------------------
(* Histories that break the contract *)

\* some event's song_id is not in the catalogue
HasUnresolved(evs) == \E j \in 1..Len(evs) : evs[j].song_id \notin DOMAIN Catalogue

\* C15: an event whose song_id getSong cannot resolve ends processUserData by
\* an exception in the step that reaches it: the event is not skipped, no
\* results array is computed, updateTable is not called and the page is left
\* as it was, whatever the events before and after it.
C15_UnresolvedSongFails ==
    /\ [](pc = "emit" => ~HasUnresolved(history))
    /\ [](lastCall.made /\ HasUnresolved(lastCall.events.data) =>
              lastCall.thrown /\ lastCall.handed = <<>>)
    /\ [][ /\ pc # "idle" /\ HasUnresolved(history) => UNCHANGED dom
           /\ pc = "scan" /\ i < Len(history)
                 /\ history[i + 1].song_id \notin DOMAIN Catalogue =>
                  /\ pc' = "idle"
                  /\ thrown'
                  /\ updateTableCalls' = <<>>
                  /\ results' = <<>> ]_vars

\* C15 witness: the second event of a history was unresolved; the invocation
\* has ended by the exception, after two getSong calls and without a call of
\* updateTable.
C15_Witness ==
    /\ pc = "idle"
    /\ lastCall.made
    /\ [j \in 1..Len(lastCall.events.data) |-> lastCall.events.data[j].song_id]
           = <<"1", UnknownSongId>>
    /\ lastCall.thrown
    /\ lastCall.handed = <<>>
    /\ getSongCalls = 2

\* some event's timestamp cannot be parsed
HasUnparseable(evs) == \E j \in 1..Len(evs) : evs[j].timestamp = Unparseable

\* C16 (as claimed): an event whose timestamp cannot be parsed makes the
\* aggregation fail: no results array is computed for a history that has one,
\* and the invocation ends by an exception without a call of updateTable, so
\* that no reported list counts the event under a placeholder day.
C16_UnparseableTimestampFails ==
    /\ pc = "emit" => ~HasUnparseable(history)
    /\ lastCall.made /\ HasUnparseable(lastCall.events.data) =>
           lastCall.thrown /\ lastCall.handed = <<>>

----------------------------------------------------------------------------
(* Invocations one after another *)

\* the step ends the invocation
Ends == pc # "idle" /\ pc' = "idle"

\* C17: an invocation that is given the events the invocation before it was
\* given ends as that one did: updateTable is handed the same rows, with the
\* same answers, in the same order (or is not called at all, if that one threw).
C17_SameInputsSameInsights ==
    [][ Ends /\ lastCall.made /\ lastCall.events = events =>
            /\ updateTableCalls' = lastCall.handed
            /\ thrown' = lastCall.thrown ]_vars

\* C17 witness: two invocations in a row were given the same two events and
\* the second has handed its rows to updateTable.
C17_Witness ==
    /\ pc = "idle"
    /\ lastCall.repeats
    /\ Len(lastCall.events.data) = 2
    /\ Len(lastCall.handed) = 1
    /\ lastCall.handed[1].defined
    /\ Len(lastCall.handed[1].data) > 0
    /\ musicTableBody = lastCall.handed[1].data

\* Each keyed accumulator with what it is keyed on, the events it counts and
\* what an event adds to it.
Accumulators ==
    << [object |-> songCount,        key |-> SongKeys, of |-> Positions,       adds |-> Plays],
       [object |-> songTime,         key |-> SongKeys, of |-> Positions,       adds |-> Seconds],
       [object |-> artistCount,      key |-> Artists,  of |-> Positions,       adds |-> Plays],
       [object |-> artistTime,       key |-> Artists,  of |-> Positions,       adds |-> Seconds],
       [object |-> genreCount,       key |-> Genres,   of |-> Positions,       adds |-> Plays],
       [object |-> fridayNightSongs, key |-> SongKeys, of |-> WindowPositions, adds |-> Plays],
       [object |-> fridayNightTime,  key |-> SongKeys, of |-> WindowPositions, adds |-> Seconds] >>

\* the accumulator holds the keys of this history's events, in the order of
\* their first events, each with the total of this history's events
OfThisHistoryOnly(a) ==
    /\ Len(a.object) = Cardinality(KeysOf(a))
    /\ \A j \in 1..Len(a.object) :
           /\ a.object[j].key \in KeysOf(a)
           /\ a.object[j].value = TotalOf(a, a.object[j].key)
    /\ \A x, y \in 1..Len(a.object) :
           x < y => FirstAccumulated(a, a.object[x].key) < FirstAccumulated(a, a.object[y].key)

\* length of the run of one SongKey that ends at position j
RunEndingAt(j) ==
    CHOOSE n \in 1..j : IsRun(j - n + 1, j) /\ (n = j \/ KeyAt(j - n) # KeyAt(j))

RECURSIVE Ascending(_)
Ascending(positions) ==
    IF positions = {} THEN <<>>
    ELSE <<Earliest(positions)>> \o Ascending(positions \ {Earliest(positions)})

\* C18: whatever invocations came before, an invocation starts its scan with
\* every accumulator as declared, and when its scan is over every count,
\* duration, day set and the streak state are those of its own events and of
\* no others, so that its results array is the one of this history aggregated
\* alone; after the return nothing of it is left.
C18_FreshAccumulators ==
    /\ pc = "idle" => NoLocals
    /\ pc = "scan" /\ i = 0 =>
           /\ \A n \in 1..Len(Accumulators) : Accumulators[n].object = <<>>
           /\ songDays = <<>> /\ streakSongs = <<>>
           /\ maxStreak = 0 /\ currentStreak = 1 /\ prevSong = ""
    /\ pc = "emit" =>
           /\ \A n \in 1..Len(Accumulators) : OfThisHistoryOnly(Accumulators[n])
           /\ Len(songDays) = Cardinality(KeysSeen)
           /\ \A j \in 1..Len(songDays) :
                  /\ songDays[j].key \in KeysSeen
                  /\ songDays[j].value = DaysPlayed(songDays[j].key)
           /\ totalDays = Cardinality(DaysListened)
           /\ maxStreak = LongestRun
           /\ currentStreak = RunEndingAt(Len(history))
           /\ prevSong = KeyAt(Len(history))
           /\ LET ends == Ascending({j \in Positions : RunEndingAt(j) = LongestRun})
              IN streakSongs = [n \in 1..Len(ends) |-> KeyAt(ends[n])]
           /\ results = Results

\* C18 witness: the scan of a later selection is over while the page still
\* shows the table of another listener, whose rows differ.
C18_Witness ==
    /\ pc = "emit"
    /\ selections >= 2
    /\ musicTable
    /\ musicTableBody # <<>>
    /\ musicTableBody # results

----------------------------------------------------------------------------
(* The page after several selections *)

\* C19 (as claimed): whenever the latest updateTable call was given a
\* non-empty list, so that the table is on the page, no "No music for this
\* user" message is on the page.
C19_NoMessageBesideTheTable ==
    /\ musicTable => noUserMessage = 0
    /\ pc = "idle" /\ Len(updateTableCalls) > 0
          /\ ~NoData(updateTableCalls[Len(updateTableCalls)]) => noUserMessage = 0

\* C20 (as claimed): at most one "No music for this user" message is on the
\* page.
C20_AtMostOneMessage == noUserMessage <= 1

----------------------------------------------------------------------------
(* The calls of updateTable and what they leave on the page *)

\* the step calls updateTable
CallsUpdateTable ==
    /\ updateTableCalls' # updateTableCalls
    /\ updateTableCalls' # <<>>

\* the argument of the call the step makes
Handed == updateTableCalls'[Len(updateTableCalls')]

\* C21: a call of updateTable without data leaves no element musicTable on
\* the page and leaves the no-data message there; a call with data puts the
\* table on the page, also after it was removed; and between two calls the
\* table and the message stay as the latest call left them.
C21_NoDataRemovesTheTable ==
    [][/\ CallsUpdateTable /\ NoData(Handed) =>
              ~musicTable' /\ musicTableBody' = <<>> /\ noUserMessage' >= 1
       /\ CallsUpdateTable /\ ~NoData(Handed) => musicTable'
       /\ ~CallsUpdateTable => UNCHANGED <<musicTable, noUserMessage>>]_vars

\* C21 witness: the second or a later selection ended by a call without
\* data: no table, the message on the page.
C21_Witness ==
    /\ pc = "idle"
    /\ selections >= 2
    /\ updateTableCalls = <<Undefined>>
    /\ ~musicTable
    /\ noUserMessage >= 1

\* C21, the table put back: two selections without data, then one with data.
C21_TableBack ==
    /\ pc = "idle"
    /\ selections = 3
    /\ musicTable
    /\ noUserMessage = 1

\* C22: a call of updateTable with a non-empty list leaves the table on the
\* page with exactly one row per entry of the list in its body, in the order
\* of the list, each row showing that entry's question and answer; no row of
\* an earlier selection remains.
C22_OneRowPerInsight ==
    [][CallsUpdateTable /\ ~NoData(Handed) =>
           /\ musicTable'
           /\ Len(musicTableBody') = Len(Handed.data)
           /\ \A j \in 1..Len(Handed.data) :
                  /\ musicTableBody'[j].question = Handed.data[j].question
                  /\ musicTableBody'[j].answer = Handed.data[j].answer]_vars

\* C22 witness: the second or a later selection has ended by a call with
\* data, and the body holds as many rows as the list it was handed.
C22_Witness ==
    /\ pc = "idle"
    /\ selections >= 2
    /\ Len(updateTableCalls) = 1
    /\ ~NoData(updateTableCalls[1])
    /\ musicTable
    /\ Len(musicTableBody) = Len(updateTableCalls[1].data)

\* C22, rows of an earlier selection: the call is about to be handed a list
\* that is shorter than the table on the page.
C22_EarlierRows ==
    /\ pc = "emit"
    /\ musicTable
    /\ results # <<>>
    /\ Len(musicTableBody) > Len(results)

----------------------------------------------------------------------------
(* The scan, event by event *)

\* the step processes one event of the history
ProcessesEvent == pc = "scan" /\ pc' = "scan" /\ i' = i + 1

\* C23: at each event of the scan, with the length of the run of equal
\* SongKeys that ends at this event: if it strictly exceeds maxStreak,
\* maxStreak takes that length and the leaderboard becomes just the event's
\* SongKey; if it equals maxStreak, the SongKey is added at the end of the
\* leaderboard and maxStreak is unchanged; otherwise both are unchanged.
C23_LeaderboardRule ==
    [][ProcessesEvent =>
           LET songKey == KeyAt(i')
               run == RunEndingAt(i')
           IN /\ currentStreak' = run
              /\ IF run > maxStreak
                 THEN maxStreak' = run /\ streakSongs' = <<songKey>>
                 ELSE IF run = maxStreak
                 THEN maxStreak' = maxStreak /\ streakSongs' = Append(streakSongs, songKey)
                 ELSE UNCHANGED <<maxStreak, streakSongs>>]_vars

\* C23 witness: two runs of length two of different songs, the second one
\* added to the leaderboard, then an event whose run of one changes nothing.
C23_Witness ==
    /\ pc = "scan"
    /\ i = 5
    /\ currentStreak = 1
    /\ maxStreak = 2
    /\ Len(streakSongs) = 2
    /\ streakSongs[1] # streakSongs[2]

----------------------------------------------------------------------------
(* The one call of updateTable of an invocation *)

\* C24: an invocation of processUserData that completes, that is, ends
\* without an exception, has called updateTable exactly once, in its last
\* step and not before: without an argument when the event list is absent or
\* empty, and otherwise with the results array computed after every event of
\* the list has been processed, never with results of a part of the list.
C24_OneCallAtTheEnd ==
    /\ [](pc # "idle" => updateTableCalls = <<>>)
    /\ [][Ends /\ ~thrown' =>
              /\ Len(updateTableCalls') = 1
              /\ IF NoHistory
                 THEN Handed = Undefined /\ getSongCalls = 0
                 ELSE /\ i = Len(history)
                      /\ getSongCalls = Len(history)
                      /\ results = Results
                      /\ Handed = Defined(results)]_vars

\* C24 witness: an invocation over two events has completed, with one call
\* of updateTable that was handed rows.
C24_Witness ==
    /\ pc = "idle"
    /\ lastCall.made
    /\ ~lastCall.thrown
    /\ lastCall.events.defined
    /\ Len(lastCall.events.data) = 2
    /\ Len(lastCall.handed) = 1
    /\ ~NoData(lastCall.handed[1])
    /\ getSongCalls = 2

\* C24, the other way to complete: no events, one call without an argument.
C24_NoArgument ==
    /\ pc = "idle"
    /\ lastCall.made
    /\ ~lastCall.thrown
    /\ lastCall.events = Defined(<<>>)
    /\ lastCall.handed = <<Undefined>>

----------------------------------------------------------------------------
(* The change listener *)

\* the step is a change event of the dropdown
ChangeEvent == selections' = selections + 1

\* C25: a change event whose value is empty does not call processUserData
\* and leaves the table, its rows and the no-data message as they were; a
\* change event with a non-empty value calls processUserData, with that value
\* as its argument, and once: no other step starts an invocation.
C25_EmptyValueDoesNothing ==
    [][/\ ChangeEvent =>
              IF changeValue' = ""
              THEN /\ pc' = "idle"
                   /\ UNCHANGED <<userID, events, getSongCalls, updateTableCalls, thrown>>
                   /\ UNCHANGED <<musicTable, musicTableBody, noUserMessage>>
              ELSE /\ pc' = "begin"
                   /\ userID' = changeValue'
       /\ ~ChangeEvent => pc' # "begin" /\ userID' \in {userID, ""}]_vars

\* C25 witness: the table of an earlier selection is on the page and the
\* latest change event had the empty value.
C25_Witness ==
    /\ pc = "idle"
    /\ selections >= 2
    /\ changeValue = ""
    /\ musicTable
    /\ musicTableBody # <<>>

\* C25, a listener's value: processUserData runs with the second listener's
\* value after it ran with the first one's.
C25_CalledWithTheValue ==
    /\ pc = "begin"
    /\ changeValue = "2"
    /\ userID = "2"
    /\ lastCall.made

----------------------------------------------------------------------------
(* The identity of a song *)

\* the song of the event at position j
SongAt(j) == getSong(history[j].song_id)

\* artist and title of the songs of the events processed so far
SongsSeen == {<<SongAt(j).artist, SongAt(j).title>> : j \in 1..i}

\* C26 (as claimed): the SongKey identifies a song: of the events processed
\* so far, two whose songs differ in artist or in title have different
\* SongKeys, two whose songs have the same artist and title have the same
\* one, and songCount holds one entry for each pair of artist and title.
C26_SongKeyIdentifiesTheSong ==
    pc \in {"scan", "emit"} =>
        /\ \A j, k \in 1..i :
               KeyAt(j) = KeyAt(k) <=>
                   /\ SongAt(j).artist = SongAt(k).artist
                   /\ SongAt(j).title = SongAt(k).title
        /\ Len(songCount) = Cardinality(SongsSeen)

----------------------------------------------------------------------------
(* Relations between the accumulators during the scan *)

\* at least one event has been processed and the invocation has not returned
AfterAnEvent == pc \in {"scan", "emit"} /\ i >= 1

\* C27: after each processed event, 1 <= currentStreak <= maxStreak;
\* currentStreak is at most the play count accumulated so far under the
\* SongKey of the current song; maxStreak is at most the play count of every
\* SongKey on the streak leaderboard and at most the number of events
\* processed.
C27_StreakBounds ==
    AfterAnEvent =>
        /\ 1 <= currentStreak
        /\ currentStreak <= maxStreak
        /\ prevSong = KeyAt(i)
        /\ currentStreak <= GetOr(songCount, KeyAt(i), 0)
        /\ \A n \in 1..Len(streakSongs) : maxStreak <= GetOr(songCount, streakSongs[n], 0)
        /\ maxStreak <= i

\* C27 witness: the current streak is shorter than the longest one and than
\* the play count of its song, and the longest is shorter than the scan.
C27_Witness ==
    /\ pc = "scan"
    /\ i >= 1
    /\ 2 <= currentStreak
    /\ currentStreak < maxStreak
    /\ currentStreak < GetOr(songCount, prevSong, 0)
    /\ maxStreak < i

\* the days in the day set of any song
DaysInTheSets == UNION {songDays[n].value : n \in 1..Len(songDays)}

\* C28: totalDays, computed before the loop, equals the number of days in
\* the union of the songs' day sets once the loop is over, and at every point
\* of the scan no song's day set has more than totalDays elements.
C28_TotalDaysIsTheUnion ==
    pc \in {"scan", "emit"} =>
        /\ i = Len(history) => totalDays = Cardinality(DaysInTheSets)
        /\ Cardinality(DaysInTheSets) <= totalDays
        /\ \A n \in 1..Len(songDays) : Cardinality(songDays[n].value) <= totalDays

\* C28 witness: after the loop, two songs, each played on one day of its own:
\* only the union of the two day sets has totalDays elements.
C28_Witness ==
    /\ pc = "emit"
    /\ totalDays = 2
    /\ Len(songDays) = 2
    /\ Cardinality(songDays[1].value) = 1
    /\ Cardinality(songDays[2].value) = 1
    /\ songDays[1].value # songDays[2].value

\* C29: at every point of the scan the play counts per artist sum to the
\* number of events processed so far, so do the play counts per genre, and
\* the durations per artist sum to the same total as the durations per song.
C29_ArtistAndGenreTotals ==
    pc \in {"scan", "emit"} =>
        /\ SumValues(artistCount) = i
        /\ SumValues(genreCount) = i
        /\ SumValues(artistTime) = SumValues(songTime)

\* C29 witness: three events processed, of two songs of one artist and a
\* song of another artist, each of a genre of its own.
C29_Witness ==
    /\ pc = "scan"
    /\ i = 3
    /\ Len(artistCount) = 2
    /\ Len(genreCount) = 3
    /\ Len(songTime) = 3
    /\ SumValues(songTime) > 0

====
